---------------------------- MODULE Spec2Model ----------------------------
(***************************************************************************)
(* Skeleton/completion validation and ACSL injection                       *)
(* (src/src/tests/validation_treesitter.py).                               *)
(*                                                                         *)
(* A source text is a sequence of characters.  Every character of the      *)
(* model stands for one lexical unit of C: "t" a type, "f"/"g" a function  *)
(* declarator, "W"/"V" two different while headers, "R" a for header,      *)
(* "D" ... "U" a do ... while(c); pair, "I" an if header, "x"/"y"          *)
(* expression statements, "b" a break statement, "#" an include directive, *)
(* "é" a comment made of one character that UTF-8 encodes on two bytes,    *)
(* "A"/"B"/"P"/"Q" ACSL comment text.  " " and "\n" are the whitespace     *)
(* characters.                                                             *)
(***************************************************************************)
EXTENDS Integers, Sequences, FiniteSets, TLC

(***************************************************************************)
(* Python values that can be handed over as the spec argument.             *)
(***************************************************************************)
PyNone == [tag |-> "none", str |-> <<>>, num |-> 0, items |-> <<>>]
PyStr(s) == [tag |-> "str", str |-> s, num |-> 0, items |-> <<>>]
PyInt(n) == [tag |-> "int", str |-> <<>>, num |-> n, items |-> <<>>]
PyList(xs) == [tag |-> "list", str |-> <<>>, num |-> 0, items |-> xs]

\* bool(v)
Truthy(v) ==
  CASE v.tag = "none" -> FALSE
    [] v.tag = "int" -> v.num # 0
    [] v.tag = "str" -> Len(v.str) > 0
    [] v.tag = "list" -> Len(v.items) > 0

\* len(v) is defined for strings and lists; it raises TypeError otherwise
HasLen(v) == v.tag \in {"str", "list"}
PyLen(v) == IF v.tag = "str" THEN Len(v.str) ELSE Len(v.items)

(***************************************************************************)
(* Text primitives: str.strip, str.split, str.join, slicing, re.sub.       *)
(***************************************************************************)
IsWs(c) == c \in {" ", "\n"}

\* s[a:b] with 0-based bounds, clamped as Python clamps them
Slice(s, a, b) ==
  LET lo == IF a > Len(s) THEN Len(s) ELSE a
      hi == IF b > Len(s) THEN Len(s) ELSE b
  IN IF hi <= lo THEN <<>> ELSE SubSeq(s, lo + 1, hi)

\* str.strip()
Strip(s) ==
  LET nonws == {i \in 1..Len(s) : ~IsWs(s[i])}
  IN IF nonws = {} THEN <<>>
     ELSE SubSeq(s, CHOOSE i \in nonws : \A j \in nonws : i <= j,
                    CHOOSE i \in nonws : \A j \in nonws : i >= j)

RECURSIVE CollapseWs(_)
\* re.sub(r'\s+', ' ', s)
CollapseWs(s) ==
  IF s = <<>> THEN <<>>
  ELSE IF IsWs(Head(s))
       THEN IF Len(s) > 1 /\ IsWs(s[2])
            THEN CollapseWs(Tail(s))
            ELSE <<" ">> \o CollapseWs(Tail(s))
       ELSE <<Head(s)>> \o CollapseWs(Tail(s))

\* strip, then collapse every run of whitespace to one space
Normalize(s) == CollapseWs(Strip(s))

RECURSIVE Split(_)
\* s.split('\n')
Split(s) ==
  LET nls == {i \in 1..Len(s) : s[i] = "\n"}
  IN IF nls = {} THEN <<s>>
     ELSE LET k == CHOOSE i \in nls : \A j \in nls : i <= j
          IN <<SubSeq(s, 1, k - 1)>> \o Split(SubSeq(s, k + 1, Len(s)))

RECURSIVE Join(_, _)
\* sep.join(parts)
Join(sep, parts) ==
  IF parts = <<>> THEN <<>>
  ELSE IF Len(parts) = 1 THEN parts[1]
       ELSE parts[1] \o sep \o Join(sep, Tail(parts))

\* s.count('\n')
CountNewlines(s) == Cardinality({i \in 1..Len(s) : s[i] = "\n"})

\* the whitespace run that starts at index p ends at index WsRunEnd(s, p)
WsRunEnd(s, p) ==
  CHOOSE q \in p..Len(s) :
    /\ \A k \in p..q : IsWs(s[k])
    /\ (q = Len(s) \/ ~IsWs(s[q + 1]))

RECURSIVE CollapseBlankLines(_)
\* re.sub(r'\n\s*\n\s*\n+', '\n\n', s): a newline whose whitespace run
\* holds three newlines or more is replaced, up to the last newline of the
\* run, by two newlines
CollapseBlankLines(s) ==
  IF s = <<>> THEN <<>>
  ELSE IF s[1] = "\n"
       THEN LET q == WsRunEnd(s, 1)
                nls == {i \in 1..q : s[i] = "\n"}
                last == CHOOSE i \in nls : \A j \in nls : i >= j
            IN IF Cardinality(nls) >= 3
               THEN <<"\n", "\n">> \o CollapseBlankLines(SubSeq(s, last + 1, Len(s)))
               ELSE <<s[1]>> \o CollapseBlankLines(Tail(s))
       ELSE <<s[1]>> \o CollapseBlankLines(Tail(s))

(***************************************************************************)
(* UTF-8: bytes(c_code, "utf8").  Every character is one byte wide but     *)
(* "é", which is two bytes wide.                                           *)
(***************************************************************************)
Width(c) == IF c = "é" THEN 2 ELSE 1

RECURSIVE ByteLen(_)
ByteLen(s) == IF s = <<>> THEN 0 ELSE Width(Head(s)) + ByteLen(Tail(s))

\* byte offset at which the i-th character (1-based) of s starts
ByteOff(s, i) == ByteLen(SubSeq(s, 1, i - 1))

\* source_bytes[a:b].decode('utf8') for offsets on character boundaries
ByteSlice(s, a, b) ==
  LET idx == {i \in 1..Len(s) : ByteOff(s, i) >= a /\ ByteOff(s, i + 1) <= b}
  IN IF idx = {} THEN <<>>
     ELSE SubSeq(s, CHOOSE i \in idx : \A j \in idx : i <= j,
                    CHOOSE i \in idx : \A j \in idx : i >= j)

(***************************************************************************)
(* The tree provider: parser.parse.  A node has a type, a byte span and    *)
(* ordered children.                                                       *)
(***************************************************************************)
Identifiers == {"f", "g"}
Statements == {"x", "y", "b"}
Comments == {"é", "A", "B", "P", "Q"}

Node(type, s, i, j, children) ==
  [type |-> type, start_byte |-> ByteOff(s, i), end_byte |-> ByteOff(s, j + 1),
   children |-> children]

Leaf(type, s, i) == Node(type, s, i, i, <<>>)

\* first index from i on that holds no whitespace (Len(s) + 1 if none)
SkipWs(s, i) ==
  CHOOSE j \in i..(Len(s) + 1) :
    /\ \A k \in i..(j - 1) : IsWs(s[k])
    /\ (j = Len(s) + 1 \/ ~IsWs(s[j]))

LoopNodeType(c) ==
  CASE c \in {"W", "V"} -> "while_statement"
    [] c = "R" -> "for_statement"
    [] c = "D" -> "do_statement"

StatementNodeType(c) ==
  CASE c \in {"x", "y"} -> "expression_statement"
    [] c = "b" -> "break_statement"

RECURSIVE ParseNode(_, _)
RECURSIVE ParseItems(_, _, _)

\* the items from index i on, up to the end of the text or, inside a block,
\* up to the closing brace
ParseItems(s, i, inBlock) ==
  LET j == SkipWs(s, i)
  IN IF j > Len(s) \/ (inBlock /\ s[j] = "}")
     THEN [nodes |-> <<>>, next |-> j]
     ELSE LET r == ParseNode(s, j)
              rest == ParseItems(s, r.next, inBlock)
          IN [nodes |-> <<r.node>> \o rest.nodes, next |-> rest.next]

\* { items }
ParseCompound(s, i) ==
  LET items == ParseItems(s, i + 1, TRUE)
      closed == items.next <= Len(s)
      last == IF closed THEN items.next ELSE Len(s)
  IN [node |-> Node("compound_statement", s, i, last,
                    <<Leaf("{", s, i)>> \o items.nodes \o
                    (IF closed THEN <<Leaf("}", s, last)>> ELSE <<>>)),
      next |-> last + 1]

\* type declarator { items }
ParseFunction(s, i) ==
  LET j == SkipWs(s, i + 1)
      k == SkipWs(s, j + 1)
  IN IF j <= Len(s) /\ s[j] \in Identifiers
     THEN LET declarator == Node("function_declarator", s, j, j,
                                 <<Leaf("identifier", s, j)>>)
          IN IF k <= Len(s) /\ s[k] = "{"
             THEN LET body == ParseCompound(s, k)
                  IN [node |-> [type |-> "function_definition",
                                start_byte |-> ByteOff(s, i),
                                end_byte |-> body.node.end_byte,
                                children |-> <<Leaf("primitive_type", s, i),
                                               declarator, body.node>>],
                      next |-> body.next]
             ELSE [node |-> Node("declaration", s, i, j,
                                 <<Leaf("primitive_type", s, i), declarator>>),
                   next |-> j + 1]
     ELSE [node |-> Leaf("ERROR", s, i), next |-> i + 1]

\* while (c) body | for (;;) body | do body while (c);
ParseLoop(s, i) ==
  LET j == SkipWs(s, i + 1)
      keyword == Leaf(IF s[i] = "D" THEN "do" ELSE "loop_header", s, i)
  IN IF j <= Len(s) /\ s[j] # "}"
     THEN LET body == ParseNode(s, j)
              k == SkipWs(s, body.next)
              tail == s[i] = "D" /\ k <= Len(s) /\ s[k] = "U"
          IN [node |-> [type |-> LoopNodeType(s[i]),
                        start_byte |-> ByteOff(s, i),
                        end_byte |-> IF tail THEN ByteOff(s, k + 1)
                                     ELSE body.node.end_byte,
                        children |-> <<keyword, body.node>> \o
                                     (IF tail THEN <<Leaf("while_tail", s, k)>>
                                      ELSE <<>>)],
               next |-> IF tail THEN k + 1 ELSE body.next]
     ELSE [node |-> Node(LoopNodeType(s[i]), s, i, i, <<keyword>>),
           next |-> i + 1]

\* if (c) body
ParseIf(s, i) ==
  LET j == SkipWs(s, i + 1)
  IN IF j <= Len(s) /\ s[j] # "}"
     THEN LET body == ParseNode(s, j)
          IN [node |-> [type |-> "if_statement",
                        start_byte |-> ByteOff(s, i),
                        end_byte |-> body.node.end_byte,
                        children |-> <<Leaf("if", s, i), body.node>>],
              next |-> body.next]
     ELSE [node |-> Node("if_statement", s, i, i, <<Leaf("if", s, i)>>),
           next |-> i + 1]

ParseNode(s, i) ==
  CASE s[i] = "t" -> ParseFunction(s, i)
    [] s[i] = "{" -> ParseCompound(s, i)
    [] s[i] \in {"W", "V", "R", "D"} -> ParseLoop(s, i)
    [] s[i] = "I" -> ParseIf(s, i)
    [] s[i] \in Statements ->
         [node |-> Leaf(StatementNodeType(s[i]), s, i), next |-> i + 1]
    [] s[i] = "#" -> [node |-> Leaf("preproc_include", s, i), next |-> i + 1]
    [] s[i] \in Comments -> [node |-> Leaf("comment", s, i), next |-> i + 1]
    [] OTHER -> [node |-> Leaf("ERROR", s, i), next |-> i + 1]

\* parser.parse(bytes(c_code, "utf8")).root_node
Parse(s) ==
  [type |-> "translation_unit", start_byte |-> 0, end_byte |-> ByteLen(s),
   children |-> ParseItems(s, 1, FALSE).nodes]

(***************************************************************************)
(* Step 1: extract structure from code.                                    *)
(***************************************************************************)
RECURSIVE _find_all_nodes_of_type(_, _)
RECURSIVE FindInChildren(_, _)

\* results.extend(...) over node.children, in order
FindInChildren(children, node_type) ==
  IF children = <<>> THEN <<>>
  ELSE _find_all_nodes_of_type(Head(children), node_type) \o
       FindInChildren(Tail(children), node_type)

_find_all_nodes_of_type(node, node_type) ==
  (IF node.type = node_type THEN <<node>> ELSE <<>>) \o
  FindInChildren(node.children, node_type)

\* the children of the given type, in order
ChildrenOfType(node, type) == SelectSeq(node.children, LAMBDA c : c.type = type)

_get_function_name(func_node, source) ==
  LET idents == {<<d, i>> \in (1..Len(func_node.children)) \X (1..3) :
                   /\ func_node.children[d].type = "function_declarator"
                   /\ i <= Len(func_node.children[d].children)
                   /\ func_node.children[d].children[i].type = "identifier"}
      first == CHOOSE p \in idents :
                 \A q \in idents : p[1] < q[1] \/ (p[1] = q[1] /\ p[2] <= q[2])
      ident == func_node.children[first[1]].children[first[2]]
  IN IF idents = {} THEN <<"unknown">>
     ELSE ByteSlice(source, ident.start_byte, ident.end_byte)

_get_function_signature(func_node, source) ==
  LET bodies == ChildrenOfType(func_node, "compound_statement")
  IN IF bodies # <<>>
     THEN Normalize(ByteSlice(source, func_node.start_byte, bodies[1].start_byte))
     ELSE Strip(ByteSlice(source, func_node.start_byte, func_node.end_byte))

HeaderStatementTypes ==
  {"expression_statement", "return_statement", "for_statement",
   "while_statement", "if_statement", "do_statement"}

RECURSIVE LoopBodyStart(_, _)
\* the loop over loop_node.children of _get_loop_header; -1 stands for None
LoopBodyStart(children, body_start) ==
  IF children = <<>> THEN body_start
  ELSE IF Head(children).type = "compound_statement"
       THEN Head(children).start_byte
       ELSE IF Head(children).type \in HeaderStatementTypes
            THEN LoopBodyStart(Tail(children), Head(children).start_byte)
            ELSE LoopBodyStart(Tail(children), body_start)

_get_loop_header(loop_node, source) ==
  LET body_start == LoopBodyStart(loop_node.children, -1)
  IN IF body_start # -1 /\ body_start # 0
     THEN CollapseWs(Strip(ByteSlice(source, loop_node.start_byte, body_start)))
     ELSE CollapseWs(Strip(ByteSlice(source, loop_node.start_byte, loop_node.end_byte)))

\* source_str[:byte_pos].count('\n') + 1
LineNumber(source, byte_pos) == CountNewlines(Slice(source, 0, byte_pos)) + 1

_extract_loop_info(loop_node, source, loop_type) ==
  [type |-> CASE loop_type = "for_statement" -> "for"
              [] loop_type = "while_statement" -> "while"
              [] OTHER -> "do",
   header |-> _get_loop_header(loop_node, source),
   byte_position |-> loop_node.start_byte,
   line_number |-> LineNumber(source, loop_node.start_byte)]

RECURSIVE SortAscending(_)
\* list.sort(key=byte_position): stable
SortAscending(xs) ==
  IF xs = <<>> THEN <<>>
  ELSE LET sorted == SortAscending(SubSeq(xs, 1, Len(xs) - 1))
           x == xs[Len(xs)]
           before == SelectSeq(sorted, LAMBDA y : y.byte_position <= x.byte_position)
           after == SelectSeq(sorted, LAMBDA y : y.byte_position > x.byte_position)
       IN before \o <<x>> \o after

LoopsOfType(body_node, source, loop_type) ==
  LET nodes == _find_all_nodes_of_type(body_node, loop_type)
  IN [i \in 1..Len(nodes) |-> _extract_loop_info(nodes[i], source, loop_type)]

\* _extract_loops_from_body without the sort
_extract_loops_from_body_Unsorted(body_node, source) ==
  LoopsOfType(body_node, source, "for_statement") \o
  LoopsOfType(body_node, source, "while_statement") \o
  LoopsOfType(body_node, source, "do_statement")

_extract_loops_from_body(body_node, source) ==
  SortAscending(LoopsOfType(body_node, source, "for_statement") \o
                LoopsOfType(body_node, source, "while_statement") \o
                LoopsOfType(body_node, source, "do_statement"))

_extract_function_info(func_node, source) ==
  LET bodies == ChildrenOfType(func_node, "compound_statement")
  IN [name |-> _get_function_name(func_node, source),
      signature |-> _get_function_signature(func_node, source),
      byte_position |-> func_node.start_byte,
      line_number |-> LineNumber(source, func_node.start_byte),
      loops |-> IF bodies # <<>>
                THEN _extract_loops_from_body(bodies[1], source)
                ELSE <<>>]

\* a CodeStructure is the sequence of its functions
extract_structure(c_code) ==
  LET nodes == _find_all_nodes_of_type(Parse(c_code), "function_definition")
  IN [i \in 1..Len(nodes) |-> _extract_function_info(nodes[i], c_code)]

(***************************************************************************)
(* Step 2: validate skeleton vs completion.                                *)
(***************************************************************************)
\* the diagnostic: the compared field, where, and both observed values
Diag(field, func, loop, skel, comp) ==
  [field |-> field, func |-> func, loop |-> loop, skel |-> skel, comp |-> comp]

NoDiag == Diag("none", PyNone, -1, PyNone, PyNone)

Ok == [valid |-> TRUE, error |-> NoDiag]
Mismatch(d) == [valid |-> FALSE, error |-> d]

RECURSIVE CompareLoops_IgnoreHeader(_, _, _, _)
\* CompareLoops without the header check
CompareLoops_IgnoreHeader(name, skel_loops, comp_loops, j) ==
  IF j >= Len(skel_loops) \/ j >= Len(comp_loops) THEN Ok
  ELSE IF skel_loops[j + 1].type # comp_loops[j + 1].type
       THEN Mismatch(Diag("loop type", PyStr(name), j,
                          PyStr(<<skel_loops[j + 1].type>>),
                          PyStr(<<comp_loops[j + 1].type>>)))
       ELSE CompareLoops_IgnoreHeader(name, skel_loops, comp_loops, j + 1)

RECURSIVE CompareLoops(_, _, _, _)
\* for j, (skel_loop, comp_loop) in enumerate(zip(...)), from j on
CompareLoops(name, skel_loops, comp_loops, j) ==
  IF j >= Len(skel_loops) \/ j >= Len(comp_loops) THEN Ok
  ELSE LET skel_loop == skel_loops[j + 1]
           comp_loop == comp_loops[j + 1]
       IN IF skel_loop.type # comp_loop.type
          THEN Mismatch(Diag("loop type", PyStr(name), j,
                             PyStr(<<skel_loop.type>>), PyStr(<<comp_loop.type>>)))
          ELSE IF skel_loop.header # comp_loop.header
               THEN Mismatch(Diag("loop header", PyStr(name), j,
                                  PyStr(skel_loop.header), PyStr(comp_loop.header)))
               ELSE CompareLoops(name, skel_loops, comp_loops, j + 1)

RECURSIVE CompareFunctions_NameAgainstSignature(_, _, _)
\* CompareFunctions that checks the skeleton's name against the completion's
\* signature
CompareFunctions_NameAgainstSignature(skel, comp, i) ==
  IF i >= Len(skel) \/ i >= Len(comp) THEN Ok
  ELSE IF skel[i + 1].name # comp[i + 1].signature
       THEN Mismatch(Diag("name", PyInt(i), -1,
                          PyStr(skel[i + 1].name), PyStr(comp[i + 1].signature)))
       ELSE CompareFunctions_NameAgainstSignature(skel, comp, i + 1)

RECURSIVE CompareFunctions_SignatureFirst(_, _, _)
\* CompareFunctions that checks the signature before the name
CompareFunctions_SignatureFirst(skel, comp, i) ==
  IF i >= Len(skel) \/ i >= Len(comp) THEN Ok
  ELSE LET skel_func == skel[i + 1]
           comp_func == comp[i + 1]
           loops == CompareLoops(skel_func.name, skel_func.loops, comp_func.loops, 0)
       IN IF skel_func.signature # comp_func.signature
          THEN Mismatch(Diag("signature", PyStr(skel_func.name), -1,
                             PyStr(skel_func.signature), PyStr(comp_func.signature)))
          ELSE IF skel_func.name # comp_func.name
          THEN Mismatch(Diag("name", PyInt(i), -1,
                             PyStr(skel_func.name), PyStr(comp_func.name)))
          ELSE IF Len(skel_func.loops) # Len(comp_func.loops)
          THEN Mismatch(Diag("loop count", PyStr(skel_func.name), -1,
                             PyInt(Len(skel_func.loops)), PyInt(Len(comp_func.loops))))
          ELSE IF ~loops.valid THEN loops
          ELSE CompareFunctions_SignatureFirst(skel, comp, i + 1)

RECURSIVE CompareFunctions(_, _, _)
\* for i, (skel_func, comp_func) in enumerate(zip(...)), from i on
CompareFunctions(skel, comp, i) ==
  IF i >= Len(skel) \/ i >= Len(comp) THEN Ok
  ELSE LET skel_func == skel[i + 1]
           comp_func == comp[i + 1]
           loops == CompareLoops(skel_func.name, skel_func.loops, comp_func.loops, 0)
       IN IF skel_func.name # comp_func.name
          THEN Mismatch(Diag("name", PyInt(i), -1,
                             PyStr(skel_func.name), PyStr(comp_func.name)))
          ELSE IF skel_func.signature # comp_func.signature
          THEN Mismatch(Diag("signature", PyStr(skel_func.name), -1,
                             PyStr(skel_func.signature), PyStr(comp_func.signature)))
          ELSE IF Len(skel_func.loops) # Len(comp_func.loops)
          THEN Mismatch(Diag("loop count", PyStr(skel_func.name), -1,
                             PyInt(Len(skel_func.loops)), PyInt(Len(comp_func.loops))))
          ELSE IF ~loops.valid THEN loops
          ELSE CompareFunctions(skel, comp, i + 1)

_compare_structures(skel, comp) ==
  IF Len(skel) # Len(comp)
  THEN Mismatch(Diag("function count", PyNone, -1, PyInt(Len(skel)), PyInt(Len(comp))))
  ELSE CompareFunctions(skel, comp, 0)

validate_completion_matches_skeleton(skel_text, comp_text) ==
  _compare_structures(extract_structure(skel_text), extract_structure(comp_text))

(***************************************************************************)
(* Step 3: injection points and splicing.                                  *)
(***************************************************************************)
InjectionPoint(type, at, spec_index, name, loop_idx) ==
  [type |-> type, byte_position |-> at.byte_position,
   line_number |-> at.line_number, spec_index |-> spec_index,
   context |-> [func |-> name, loop |-> loop_idx]]

RECURSIVE PlanLoops_CursorStuck(_, _, _, _)
\* PlanLoops that does not advance the cursor after a loop
PlanLoops_CursorStuck(func, loop_idx, spec_index, spec_len) ==
  IF loop_idx >= Len(func.loops) THEN [points |-> <<>>, spec_index |-> spec_index]
  ELSE IF spec_index < spec_len
       THEN LET rest == PlanLoops_CursorStuck(func, loop_idx + 1, spec_index, spec_len)
            IN [points |-> <<InjectionPoint("loop", func.loops[loop_idx + 1],
                                            spec_index, func.name, loop_idx)>>
                           \o rest.points,
                spec_index |-> rest.spec_index]
       ELSE PlanLoops_CursorStuck(func, loop_idx + 1, spec_index, spec_len)

RECURSIVE PlanLoops(_, _, _, _)
\* for loop_idx, loop in enumerate(func.loops), from loop_idx on
PlanLoops(func, loop_idx, spec_index, spec_len) ==
  IF loop_idx >= Len(func.loops) THEN [points |-> <<>>, spec_index |-> spec_index]
  ELSE IF spec_index < spec_len
       THEN LET rest == PlanLoops(func, loop_idx + 1, spec_index + 1, spec_len)
            IN [points |-> <<InjectionPoint("loop", func.loops[loop_idx + 1],
                                            spec_index, func.name, loop_idx)>>
                           \o rest.points,
                spec_index |-> rest.spec_index]
       ELSE PlanLoops(func, loop_idx + 1, spec_index, spec_len)

RECURSIVE PlanFunctions(_, _, _, _)
\* for func in structure.functions, from the i-th function (0-based) on
PlanFunctions(functions, i, spec_index, spec_len) ==
  IF i >= Len(functions) THEN <<>>
  ELSE LET func == functions[i + 1]
           own == IF spec_index < spec_len
                  THEN <<InjectionPoint("function", func, spec_index, func.name, -1)>>
                  ELSE <<>>
           loops == PlanLoops(func, 0, spec_index + Len(own), spec_len)
       IN own \o loops.points \o
          PlanFunctions(functions, i + 1, loops.spec_index, spec_len)

RECURSIVE SortDescending(_)
\* list.sort(key=byte_position, reverse=True): stable
SortDescending(xs) ==
  IF xs = <<>> THEN <<>>
  ELSE LET sorted == SortDescending(SubSeq(xs, 1, Len(xs) - 1))
           x == xs[Len(xs)]
           before == SelectSeq(sorted, LAMBDA y : y.byte_position >= x.byte_position)
           after == SelectSeq(sorted, LAMBDA y : y.byte_position < x.byte_position)
       IN before \o <<x>> \o after

\* len(spec) is evaluated only when there is a slot to fill
find_injection_points_raises(c_code, spec) ==
  ~HasLen(spec) /\ extract_structure(c_code) # <<>>

\* find_injection_points with the cursor starting at the predicates
find_injection_points_FromZero(c_code, spec) ==
  SortDescending(PlanFunctions(extract_structure(c_code), 0, 0, PyLen(spec)))

find_injection_points(c_code, spec) ==
  SortDescending(PlanFunctions(extract_structure(c_code), 0, 1, PyLen(spec)))

\* spec[k]
PyIndex(v, k) == IF v.tag = "str" THEN PyStr(<<v.str[k + 1]>>) ELSE v.items[k + 1]

\* re.match(include_pattern, line)
IsIncludeLine(line) ==
  LET j == SkipWs(line, 1) IN j <= Len(line) /\ line[j] = "#"

\* index (0-based) of the last line that matches the include pattern, or -1
LastIncludeLine(lines) ==
  LET matching == {i \in 1..Len(lines) : IsIncludeLine(lines[i])}
  IN IF matching = {} THEN -1
     ELSE (CHOOSE i \in matching : \A j \in matching : i >= j) - 1

HeaderOf(c_code) ==
  LET lines == Split(c_code)
      last_include_line == LastIncludeLine(lines)
  IN IF last_include_line >= 0
     THEN Join(<<"\n">>, SubSeq(lines, 1, last_include_line + 1))
     ELSE <<>>

BodyOf(c_code) ==
  LET lines == Split(c_code)
      last_include_line == LastIncludeLine(lines)
  IN IF last_include_line >= 0
     THEN Join(<<"\n">>, SubSeq(lines, last_include_line + 2, Len(lines)))
     ELSE c_code

\* the elements a for loop over v visits
PyIter(v) ==
  IF v.tag = "str" THEN [i \in 1..Len(v.str) |-> PyStr(<<v.str[i]>>)] ELSE v.items

\* `x and x.strip()` raises AttributeError for a truthy x that is no string
StripRaises(x) == Truthy(x) /\ x.tag # "str"
NonBlank(x) == Truthy(x) /\ x.tag = "str" /\ Strip(x.str) # <<>>

\* predicates = spec[0] if spec[0] else []
PredicatesOf(spec) == IF Truthy(PyIndex(spec, 0)) THEN PyIndex(spec, 0) ELSE PyList(<<>>)

\* iterating a truthy int raises TypeError; so does strip on a non-string
PredicatesRaise(spec) ==
  LET predicates == PredicatesOf(spec)
  IN /\ Truthy(predicates)
     /\ \/ predicates.tag = "int"
        \/ \E i \in 1..Len(PyIter(predicates)) : StripRaises(PyIter(predicates)[i])

PredicatesText(spec) ==
  LET predicates == PredicatesOf(spec)
      kept == SelectSeq(PyIter(predicates), NonBlank)
  IN IF Truthy(predicates)
     THEN Join(<<"\n", "\n">>, [i \in 1..Len(kept) |-> Strip(kept[i].str)])
     ELSE <<>>

RECURSIVE ApplyPoints_BlankToo(_, _, _)
\* ApplyPoints that only checks the fragment for being non-empty
ApplyPoints_BlankToo(points, result, spec) ==
  IF points = <<>> THEN result
  ELSE LET point == Head(points)
           spec_text == PyIndex(spec, point.spec_index)
       IN ApplyPoints_BlankToo(Tail(points),
                               IF Truthy(spec_text) /\ spec_text.tag = "str"
                               THEN Slice(result, 0, point.byte_position) \o
                                    Strip(spec_text.str) \o <<"\n">> \o
                                    Slice(result, point.byte_position, Len(result))
                               ELSE result,
                               spec)

RECURSIVE ApplyPoints(_, _, _)
\* for point in injection_points: insert the fragment before the point
ApplyPoints(points, result, spec) ==
  IF points = <<>> THEN result
  ELSE LET point == Head(points)
           spec_text == PyIndex(spec, point.spec_index)
       IN ApplyPoints(Tail(points),
                      IF NonBlank(spec_text)
                      THEN Slice(result, 0, point.byte_position) \o
                           Strip(spec_text.str) \o <<"\n">> \o
                           Slice(result, point.byte_position, Len(result))
                      ELSE result,
                      spec)

\* the guard of the early return: `not spec or len(spec) <= 1`
ReturnsUnchanged(spec) == ~Truthy(spec) \/ (HasLen(spec) /\ PyLen(spec) <= 1)

\* an exception leaves inject_acsl_specs_treesitter
inject_raises(spec, c_code) ==
  /\ Truthy(spec)
  /\ \/ ~HasLen(spec)
     \/ /\ PyLen(spec) > 1
        /\ \/ PredicatesRaise(spec)
           \/ LET points == find_injection_points(BodyOf(c_code), spec)
              IN \E i \in 1..Len(points) :
                   StripRaises(PyIndex(spec, points[i].spec_index))

\* the value inject_acsl_specs_treesitter returns when nothing is raised
inject_acsl_specs_treesitter(spec, c_code) ==
  IF ReturnsUnchanged(spec) THEN c_code
  ELSE LET header == HeaderOf(c_code)
           body == BodyOf(c_code)
           predicates_text == PredicatesText(spec)
           injection_points == find_injection_points(body, spec)
           result == ApplyPoints(injection_points, body, spec)
           final_parts == (IF header # <<>> THEN <<header>> ELSE <<>>) \o
                          (IF predicates_text # <<>> THEN <<predicates_text>> ELSE <<>>) \o
                          <<result>>
       IN Strip(CollapseBlankLines(Join(<<"\n", "\n">>, final_parts)))

(***************************************************************************)
(* Inputs.  A text is a concatenation of at most MaxItems top-level items; *)
(* a fragment sequence has at most MaxFragments function/loop fragments    *)
(* when it is spliced and at most MaxPlanned when it is only planned.      *)
(***************************************************************************)
MaxItems == 2
MaxFragments == 2
MaxPlanned == 4
\* the largest number of goals a "Proved goals: p / t" line reports
MaxGoals == 2
\* the largest number of "Proved goals" lines in the output of the tool
MaxLines == 2

Include == <<"#", "\n">>
Wide == <<"é", "\n">>
Plain == <<"t", " ", "f", "{", "x", "}", "\n">>
OneLoop == <<"t", " ", "f", "{", "W", "{", "x", "}", "}", "\n">>
OneLoopSpaced == <<"t", "\n", "f", " ", "{", "\n", "W", " ", "{", "y", "}", "}", "\n">>
OtherHeader == <<"t", " ", "f", "{", "V", "{", "x", "}", "}", "\n">>
ForLoop == <<"t", " ", "f", "{", "R", "{", "x", "}", "}", "\n">>
Tight == <<"t", "f", "{", "W", "{", "x", "}", "}", "\n">>
TwoLoops == <<"t", " ", "g", "{", "R", "x", "D", "{", "}", "U", "}", "\n">>
Nested == <<"t", " ", "f", "{", "t", " ", "g", "{", "W", "{", "}", "}", "}", "\n">>
\* a loop whose body is one expression statement, one break statement
SingleStatement == <<"t", " ", "f", "{", "W", "x", "}", "\n">>
BreakBody == <<"t", " ", "f", "{", "W", "b", "}", "\n">>
\* if { while for x; } do break; while(c);
Mixed == <<"t", " ", "g", "{", "I", "{", "W", "R", "x", "}", "D", "b", "U", "}", "\n">>
\* an empty line and a line of one space
BlankLines == <<"\n", " ", "\n">>

RECURSIVE TextsOf(_, _)
\* the concatenations of at most n items
TextsOf(items, n) ==
  IF n = 0 THEN {<<>>}
  ELSE LET shorter == TextsOf(items, n - 1)
       IN shorter \cup {t \o i : t \in shorter, i \in items}

\* the fragment for slot k: a specification (padded), blank or empty
FragmentsFor(k) ==
  {PyStr(<<" ", "A", ToString(k), "\n">>), PyStr(<<" ">>), PyStr(<<>>)}

RECURSIVE FragmentSeqs(_, _)
\* the sequences of n fragments, each with one of the given shapes
FragmentSeqs(n, shapes) ==
  IF n = 0 THEN {<<>>}
  ELSE {fs \o <<f>> : fs \in FragmentSeqs(n - 1, shapes),
                      f \in {g \in FragmentsFor(n) : Len(g.str) \in shapes}}

PredicateLists ==
  {PyList(<<>>),
   PyList(<<PyStr(<<" ", "P", "\n">>), PyStr(<<" ">>), PyStr(<<"Q">>)>>)}

SpecsOf(predicates, shapes, max) ==
  {PyList(<<p>> \o fs) :
     p \in predicates,
     fs \in UNION {FragmentSeqs(n, shapes) : n \in 0..max}}

\* no list; element 0 no list of strings; a later element no string
MalformedSpecs ==
  {PyNone, PyInt(5), PyList(<<>>),
   PyList(<<PyStr(<<"P">>), PyStr(<<"A", "1">>)>>),
   PyList(<<PyList(<<PyInt(5)>>), PyStr(<<"A", "1">>)>>),
   PyList(<<PyList(<<PyStr(<<"P">>)>>), PyInt(5)>>),
   PyList(<<PyList(<<PyStr(<<"P">>)>>), PyInt(0)>>),
   PyList(<<PyList(<<>>), PyStr(<<"A", "1">>), PyNone>>),
   PyList(<<PyList(<<>>), PyStr(<<"A", "1">>), PyStr(<<"A", "2">>), PyInt(5)>>)}

\* the arguments of validate_and_inject
\* well-formed fragment sequences with empty strings
EmptyStringSpecs ==
  {PyList(<<PyList(<<>>), PyStr(<<>>), PyStr(<<"A", "2">>)>>),
   PyList(<<PyList(<<PyStr(<<>>), PyStr(<<"P">>)>>), PyStr(<<"A", "1">>), PyStr(<<>>)>>)}

OrchestratorTexts == TextsOf({Include, Plain, OneLoop}, MaxItems)
OrchestratorSpecs ==
  SpecsOf(PredicateLists, {1, 4}, MaxFragments) \cup EmptyStringSpecs
    \cup MalformedSpecs

\* the arguments of find_injection_points
PlannerTexts == TextsOf({Wide, Plain, TwoLoops, Nested}, MaxItems)
PlannerSpecs ==
  SpecsOf({PyList(<<>>)}, {4}, MaxPlanned) \cup SpecsOf({PyList(<<>>)}, {1}, MaxPlanned)

\* the arguments of validate_completion_matches_skeleton
ComparatorSkeletons ==
  {Plain, OneLoop, SingleStatement, OneLoop \o TwoLoops, TwoLoops \o OneLoop}
ComparatorCompletions ==
  TextsOf({Plain, OneLoop, OneLoopSpaced, OtherHeader, ForLoop, Tight, TwoLoops,
           BreakBody, Mixed},
          MaxItems)

\* the arguments of inject_acsl_specs_treesitter
SplicerTexts == TextsOf({Include, Wide, Plain, OneLoop, Nested, BlankLines}, MaxItems)
SplicerSpecs ==
  SpecsOf(PredicateLists, {4}, MaxFragments) \cup SpecsOf({PyList(<<>>)}, {4}, MaxPlanned)

(***************************************************************************)
(* validate_spec_structure (src/src/tests/injection.py).                   *)
(***************************************************************************)
\* the tuple (is_valid, error_message); a message is the rule that is
\* violated, the index i it names and the type(...) it prints
NoMessage == [rule |-> "None", index |-> 0, got |-> "none"]
Structure(valid, rule, index, got) ==
  [valid |-> valid, message |-> [rule |-> rule, index |-> index, got |-> got]]
NotChecked == Structure(FALSE, "pending", 0, "none")

\* the 0-based indexes of the elements of xs after element `from` that are
\* no strings
NonStrings(xs, from) == {i \in from..(Len(xs) - 1) : xs[i + 1].tag # "str"}

\* the variant that looks at the later elements before the predicates
validate_spec_structure_LaterFirst(spec_arg) ==
  IF spec_arg.tag # "list"
  THEN Structure(FALSE, "spec must be a list", 0, "none")
  ELSE IF Len(spec_arg.items) = 0
  THEN Structure(FALSE, "spec cannot be empty", 0, "none")
  ELSE IF NonStrings(spec_arg.items, 1) # {}
  THEN LET i == CHOOSE k \in NonStrings(spec_arg.items, 1) :
                  \A l \in NonStrings(spec_arg.items, 1) : k <= l
       IN Structure(FALSE, "spec[i] (function/loop spec) must be a string", i,
                    spec_arg.items[i + 1].tag)
  ELSE IF spec_arg.items[1].tag # "list"
  THEN Structure(FALSE, "spec[0] (predicates) must be a list", 0, "none")
  ELSE IF NonStrings(spec_arg.items[1].items, 0) # {}
  THEN LET i == CHOOSE k \in NonStrings(spec_arg.items[1].items, 0) :
                  \A l \in NonStrings(spec_arg.items[1].items, 0) : k <= l
       IN Structure(FALSE, "spec[0][i] (predicate) must be a string", i,
                    spec_arg.items[1].items[i + 1].tag)
  ELSE Structure(TRUE, "None", 0, "none")

validate_spec_structure(spec_arg) ==
  IF spec_arg.tag # "list"
  THEN Structure(FALSE, "spec must be a list", 0, "none")
  ELSE IF Len(spec_arg.items) = 0
  THEN Structure(FALSE, "spec cannot be empty", 0, "none")
  ELSE IF spec_arg.items[1].tag # "list"
  THEN Structure(FALSE, "spec[0] (predicates) must be a list", 0, "none")
  ELSE IF NonStrings(spec_arg.items[1].items, 0) # {}
  THEN LET i == CHOOSE k \in NonStrings(spec_arg.items[1].items, 0) :
                  \A l \in NonStrings(spec_arg.items[1].items, 0) : k <= l
       IN Structure(FALSE, "spec[0][i] (predicate) must be a string", i,
                    spec_arg.items[1].items[i + 1].tag)
  ELSE IF NonStrings(spec_arg.items, 1) # {}
  THEN LET i == CHOOSE k \in NonStrings(spec_arg.items, 1) :
                  \A l \in NonStrings(spec_arg.items, 1) : k <= l
       IN Structure(FALSE, "spec[i] (function/loop spec) must be a string", i,
                    spec_arg.items[i + 1].tag)
  ELSE Structure(TRUE, "None", 0, "none")

\* the arguments of validate_spec_structure: well-formed specs, the malformed
\* ones, and specs that break two rules or one rule twice
TwiceMalformedSpecs ==
  {PyStr(<<"A", "1">>),
   PyList(<<PyStr(<<"P">>), PyInt(5)>>),
   PyList(<<PyList(<<PyStr(<<"P">>), PyInt(5), PyNone>>), PyStr(<<"A", "1">>)>>),
   PyList(<<PyList(<<PyStr(<<"P">>), PyNone>>), PyInt(5)>>),
   PyList(<<PyList(<<>>), PyStr(<<"A", "1">>), PyList(<<>>), PyInt(5)>>)}
StructureSpecs ==
  SpecsOf(PredicateLists, {4}, MaxFragments) \cup EmptyStringSpecs
    \cup MalformedSpecs \cup TwiceMalformedSpecs

\* the functions of src/apps that run an external tool on a temporary file
Tools ==
  {"check_compilation", "check_frama_c_verification", "reinject_and_verify",
   "verify_annotated_c"}

\* what NamedTemporaryFile and f.write do: the file is written; the file is
\* created and the write raises; nothing is created (or the function returns
\* before it gets there)
TempOutcomes == {"written", "write raised", "not created"}

\* the tool output holds no "Proved goals" line, or one with p / t
NoGoals == [has |-> FALSE, proved |-> 0, total |-> 0]
Goals ==
  {NoGoals} \cup {[has |-> TRUE, proved |-> p, total |-> t] : p, t \in 0..MaxGoals}

\* the "Proved goals" lines of an output, in the order they are printed
GoalLines == Goals \ {NoGoals}
Outputs == UNION {[1..n -> GoalLines] : n \in 0..MaxLines}

\* a variant that reads the last "Proved goals" line of the output
Search_LastMatch(output) == IF output = <<>> THEN NoGoals ELSE output[Len(output)]

\* re.search(r'Proved goals:\s+(\d+)\s*/\s*(\d+)', output): the first match
Search(output) == IF output = <<>> THEN NoGoals ELSE output[1]

\* the functions that run gcc or the compiled program; the other ones run
\* frama-c and read its output
CompilerTools == {"check_compilation", "check_runtime"}

\* what subprocess.run does: the tool exits, TimeoutExpired, another exception
NoOutcome == [kind |-> "none", returncode |-> 0, output |-> <<>>]
ToolOutcomes(tool) ==
  {[kind |-> "exit", returncode |-> rc, output |-> out] :
     rc \in {0, 1},
     out \in IF tool \in CompilerTools THEN {<<>>} ELSE Outputs}
    \cup {[kind |-> k, returncode |-> 0, output |-> <<>>] :
            k \in {"timeout", "exception"}}

(***************************************************************************)
(* Step 4: the public operations.  op is the operation that was called,    *)
(* skeleton, completion and spec are its arguments.                        *)
(***************************************************************************)
VARIABLES op, skeleton, completion, spec, pc, validation, points, inject_calls,
          result, temp_exists, tool_runs, outcome, returned, spec_check

vars == <<op, skeleton, completion, spec, pc, validation, points, inject_calls,
          result, temp_exists, tool_runs, outcome, returned, spec_check>>

\* the state of a call of one of the Tools: the temporary file is on disk,
\* how often the tool was started, what the tool did, the value returned
toolvars == <<temp_exists, tool_runs, outcome, returned>>

\* (success, injected_code, error_message)
Result(success, injected, stage, detail) ==
  [success |-> success, injected |-> injected,
   error |-> [stage |-> stage, detail |-> detail]]

NoResult == Result(FALSE, PyNone, "pending", NoDiag)

\* the value a tool function returns: a bool, or the float num / den
NotReturned == [tag |-> "none", bool |-> FALSE, num |-> 0, den |-> 1]
PyBool(b) == [tag |-> "bool", bool |-> b, num |-> 0, den |-> 1]
PyFloat(n, d) == [tag |-> "float", bool |-> FALSE, num |-> n, den |-> d]

Init ==
  /\ \/ /\ op = "validate_and_inject"
        /\ completion \in OrchestratorTexts
        /\ skeleton \in {completion, OneLoopSpaced}
        /\ spec \in OrchestratorSpecs
     \/ /\ op = "find_injection_points"
        /\ completion \in PlannerTexts
        /\ skeleton = <<>>
        /\ spec \in PlannerSpecs
     \/ /\ op = "validate_completion_matches_skeleton"
        /\ completion \in ComparatorCompletions
        /\ skeleton \in ComparatorSkeletons
        /\ spec = PyNone
     \/ /\ op = "inject_acsl_specs_treesitter"
        /\ completion \in SplicerTexts
        /\ skeleton = <<>>
        /\ spec \in SplicerSpecs
     \/ /\ op = "validate_spec_structure"
        /\ completion = <<>>
        /\ skeleton = <<>>
        /\ spec \in StructureSpecs
     \/ /\ op \in Tools \cup {"check_runtime"}
        /\ completion = <<>>
        /\ skeleton = <<>>
        /\ spec = PyNone
  /\ temp_exists = FALSE
  /\ tool_runs = 0
  /\ outcome = NoOutcome
  /\ returned = NotReturned
  /\ spec_check = NotChecked
  /\ pc = "start"
  /\ validation = Ok
  /\ points = <<>>
  /\ inject_calls = 0
  /\ result = NoResult

\* Validate without the early return on a mismatch
Validate_Bypass ==
  /\ op = "validate_and_inject"
  /\ pc = "start"
  /\ validation' = validate_completion_matches_skeleton(skeleton, completion)
  /\ pc' = "inject"
  /\ result' = result
  /\ UNCHANGED <<op, skeleton, completion, spec, points, inject_calls,
                 toolvars, spec_check>>

\* validate_and_inject, step 1: validate that completion matches skeleton
Validate ==
  /\ op = "validate_and_inject"
  /\ pc = "start"
  /\ validation' = validate_completion_matches_skeleton(skeleton, completion)
  /\ IF validation'.valid
     THEN pc' = "inject" /\ result' = result
     ELSE /\ pc' = "done"
          /\ result' = Result(FALSE, PyNone, "Validation failed", validation'.error)
  /\ UNCHANGED <<op, skeleton, completion, spec, points, inject_calls,
                 toolvars, spec_check>>

\* validate_and_inject, step 2: inject specs; points keeps the injection
\* points the splicer planned
Inject ==
  /\ op = "validate_and_inject"
  /\ pc = "inject"
  /\ inject_calls' = inject_calls + 1
  /\ points' = IF ReturnsUnchanged(spec) \/ inject_raises(spec, completion) THEN <<>>
               ELSE find_injection_points(BodyOf(completion), spec)
  /\ result' = IF inject_raises(spec, completion)
               THEN Result(FALSE, PyNone, "Injection failed",
                           Diag("exception", PyNone, -1, PyNone, PyNone))
               ELSE Result(TRUE, PyStr(inject_acsl_specs_treesitter(spec, completion)),
                           "none", NoDiag)
  /\ pc' = "done"
  /\ UNCHANGED <<op, skeleton, completion, spec, validation,
                 toolvars, spec_check>>

\* find_injection_points(c_code, spec), called by itself
FindInjectionPoints ==
  /\ op = "find_injection_points"
  /\ pc = "start"
  /\ points' = find_injection_points(completion, spec)
  /\ pc' = "planned"
  /\ UNCHANGED <<op, skeleton, completion, spec, validation, inject_calls, result,
                 toolvars, spec_check>>

\* validate_completion_matches_skeleton(skeleton, completion), called by itself
Compare ==
  /\ op = "validate_completion_matches_skeleton"
  /\ pc = "start"
  /\ validation' = validate_completion_matches_skeleton(skeleton, completion)
  /\ pc' = "compared"
  /\ UNCHANGED <<op, skeleton, completion, spec, points, inject_calls, result,
                 toolvars, spec_check>>

\* inject_acsl_specs_treesitter(spec, c_code), called by itself: it returns
\* the annotated text or raises
Splice ==
  /\ op = "inject_acsl_specs_treesitter"
  /\ pc = "start"
  /\ points' = IF ReturnsUnchanged(spec) \/ inject_raises(spec, completion) THEN <<>>
               ELSE find_injection_points(BodyOf(completion), spec)
  /\ result' = IF inject_raises(spec, completion)
               THEN Result(FALSE, PyNone, "raised",
                           Diag("exception", PyNone, -1, PyNone, PyNone))
               ELSE Result(TRUE, PyStr(inject_acsl_specs_treesitter(spec, completion)),
                           "none", NoDiag)
  /\ pc' = "spliced"
  /\ UNCHANGED <<op, skeleton, completion, spec, validation, inject_calls,
                 toolvars, spec_check>>

\* the value returned on a failure: False, or 0.0 for reinject_and_verify
FailureValue(tool) ==
  IF tool = "reinject_and_verify" THEN PyFloat(0, 1) ELSE PyBool(FALSE)

\* the value returned after the tool has exited
ExitValue(tool, o) ==
  LET match == Search(o.output)
  IN CASE tool \in CompilerTools -> PyBool(o.returncode = 0)
       [] tool = "reinject_and_verify" ->
            IF match.has /\ match.proved > 0 /\ match.total > 0
            THEN PyFloat(match.proved, match.total)
            ELSE PyFloat(0, 1)
       [] OTHER ->
            PyBool(match.has /\ match.proved = match.total /\ match.proved > 0)

\* a tool function up to the end of its `with NamedTemporaryFile(mode="w",
\* suffix=".c", delete=False) as f` block; an exception goes to the
\* function's `except Exception`, which returns the failure value
CreateTemp ==
  /\ op \in Tools
  /\ pc = "start"
  /\ \E t \in TempOutcomes :
       /\ temp_exists' = (t # "not created")
       /\ IF t = "written"
          THEN pc' = "created" /\ returned' = returned
          ELSE pc' = "done" /\ returned' = FailureValue(op)
  /\ UNCHANGED <<op, skeleton, completion, spec, validation, points, inject_calls,
                 result, tool_runs, outcome,
                 spec_check>>

\* a variant that starts the tool a second time after a timeout and answers
\* with what the second run gives
RunTool_RetryOnTimeout ==
  /\ op \in Tools
  /\ pc = "created"
  /\ \E o \in ToolOutcomes(op), again \in ToolOutcomes(op) :
       /\ outcome' = o
       /\ tool_runs' = IF o.kind = "timeout" THEN tool_runs + 2 ELSE tool_runs + 1
       /\ temp_exists' = FALSE
       /\ returned' = CASE o.kind = "exit" -> ExitValue(op, o)
                         [] o.kind = "timeout" /\ again.kind = "exit" ->
                              ExitValue(op, again)
                         [] OTHER -> FailureValue(op)
  /\ pc' = "done"
  /\ UNCHANGED <<op, skeleton, completion, spec, validation, points, inject_calls,
                 result,
                 spec_check>>

\* subprocess.run on the temporary file and the rest of the function:
\* os.unlink(temp_filename) is reached when subprocess.run returns, and in
\* check_compilation also on TimeoutExpired
RunTool ==
  /\ op \in Tools
  /\ pc = "created"
  /\ tool_runs' = tool_runs + 1
  /\ \E o \in ToolOutcomes(op) :
       /\ outcome' = o
       /\ temp_exists' = IF o.kind = "exit" \/
                            (o.kind = "timeout" /\ op = "check_compilation")
                         THEN FALSE ELSE temp_exists
       /\ returned' = IF o.kind = "exit" THEN ExitValue(op, o) ELSE FailureValue(op)
  /\ pc' = "done"
  /\ UNCHANGED <<op, skeleton, completion, spec, validation, points, inject_calls,
                 result,
                 spec_check>>

\* check_runtime up to the end of `with open(source_file, "w") as f`; the
\* source file is in a TemporaryDirectory, which is removed when its with
\* block is left, also by an exception
WriteSource ==
  /\ op = "check_runtime"
  /\ pc = "start"
  /\ \E t \in TempOutcomes :
       IF t = "written"
       THEN temp_exists' = TRUE /\ pc' = "created" /\ returned' = returned
       ELSE temp_exists' = FALSE /\ pc' = "done" /\ returned' = PyBool(FALSE)
  /\ UNCHANGED <<op, skeleton, completion, spec, validation, points, inject_calls,
                 result, tool_runs, outcome,
                 spec_check>>

\* check_runtime, the compile step: subprocess.run(["gcc", ...], timeout=30);
\* TimeoutExpired goes to the function's `except Exception`
CompileStep ==
  /\ op = "check_runtime"
  /\ pc = "created"
  /\ tool_runs' = tool_runs + 1
  /\ \E o \in ToolOutcomes(op) :
       /\ outcome' = o
       /\ IF o.kind = "exit" /\ o.returncode = 0
          THEN pc' = "compiled" /\ temp_exists' = temp_exists /\ returned' = returned
          ELSE pc' = "done" /\ temp_exists' = FALSE /\ returned' = PyBool(FALSE)
  /\ UNCHANGED <<op, skeleton, completion, spec, validation, points, inject_calls,
                 result,
                 spec_check>>

\* check_runtime, the run step: subprocess.run([executable_file],
\* timeout=runtime_timeout) and the rest of the function
RunStep ==
  /\ op = "check_runtime"
  /\ pc = "compiled"
  /\ tool_runs' = tool_runs + 1
  /\ \E o \in ToolOutcomes(op) :
       /\ outcome' = o
       /\ returned' = PyBool(o.kind = "exit" /\ o.returncode = 0)
  /\ temp_exists' = FALSE
  /\ pc' = "done"
  /\ UNCHANGED <<op, skeleton, completion, spec, validation, points, inject_calls,
                 result,
                 spec_check>>

\* a call of validate_spec_structure(spec)
ValidateSpecStructure ==
  /\ op = "validate_spec_structure"
  /\ pc = "start"
  /\ spec_check' = validate_spec_structure(spec)
  /\ pc' = "done"
  /\ UNCHANGED <<op, skeleton, completion, spec, validation, points, inject_calls,
                 result, toolvars>>

Next ==
  \/ Validate
  \/ Inject
  \/ FindInjectionPoints
  \/ Compare
  \/ Splice
  \/ CreateTemp
  \/ RunTool
  \/ WriteSource
  \/ CompileStep
  \/ RunStep
  \/ ValidateSpecStructure

Spec == Init /\ [][Next]_vars

(***************************************************************************)
(* Properties.                                                             *)
(***************************************************************************)
Orchestrated == op = "validate_and_inject"
Planned == op = "find_injection_points" /\ pc = "planned"
Compared == op = "validate_completion_matches_skeleton" /\ pc = "compared"

\* the structures of the two arguments
SkeletonStructure == extract_structure(skeleton)
CompletionStructure == extract_structure(completion)

\* C1: validate_and_inject injects only after the comparison of the two
\* extracted structures has succeeded; on a mismatch it returns failure with
\* the comparator's diagnostic, injection is not executed and no annotated
\* text is returned.
C1_InjectionOnlyAfterMatch ==
  Orchestrated =>
    LET cmp == _compare_structures(SkeletonStructure, CompletionStructure)
    IN /\ (pc = "inject" \/ inject_calls > 0 \/ result.success) => cmp.valid
       /\ result.success => inject_calls = 1
       /\ (pc = "done" /\ ~cmp.valid) =>
            /\ result = Result(FALSE, PyNone, "Validation failed", cmp.error)
            /\ inject_calls = 0
            /\ points = <<>>

C1_Witness ==
  /\ Orchestrated
  /\ pc = "done"
  /\ ~validation.valid
  /\ result.error.stage = "Validation failed"
  /\ result.injected = PyNone

\* structural equality of two CodeStructures: positions and line numbers
\* play no part
StructurallyEqual(a, b) ==
  /\ Len(a) = Len(b)
  /\ \A i \in 1..Len(a) :
       /\ a[i].name = b[i].name
       /\ a[i].signature = b[i].signature
       /\ Len(a[i].loops) = Len(b[i].loops)
       /\ \A j \in 1..Len(a[i].loops) :
            /\ a[i].loops[j].type = b[i].loops[j].type
            /\ a[i].loops[j].header = b[i].loops[j].header

\* the structure with every function and loop moved by db bytes and dl lines
Moved(structure, db, dl) ==
  [i \in 1..Len(structure) |->
     [structure[i] EXCEPT
        !.byte_position = @ + db,
        !.line_number = @ + dl,
        !.loops = [j \in 1..Len(@) |->
                     [@[j] EXCEPT !.byte_position = @ + db,
                                  !.line_number = @ + dl]]]]

\* C2: the comparison succeeds iff function count, and per function name,
\* normalized signature and loop count, and per loop kind and normalized
\* header are equal; byte positions and line numbers do not influence it.
C2_CompareIffStructurallyEqual ==
  Compared =>
    LET skel == SkeletonStructure
        comp == CompletionStructure
    IN /\ validation.valid <=> StructurallyEqual(skel, comp)
       /\ _compare_structures(Moved(skel, 5, 2), comp) = validation
       /\ _compare_structures(skel, Moved(comp, 3, 1)) = validation

C2_Witness ==
  /\ Compared
  /\ validation.valid
  /\ LET skel == SkeletonStructure
         comp == CompletionStructure
     IN \E i \in 1..Len(skel) :
          /\ skel[i].loops # <<>>
          /\ skel[i].loops[1].byte_position # comp[i].loops[1].byte_position
          /\ skel[i].loops[1].line_number # comp[i].loops[1].line_number

RECURSIVE SlotsOf(_)
\* the slots of a structure in traversal order: each function, followed by
\* its loops
SlotsOf(functions) ==
  IF functions = <<>> THEN <<>>
  ELSE LET func == Head(functions)
       IN <<[type |-> "function", byte_position |-> func.byte_position,
             line_number |-> func.line_number]>> \o
          [j \in 1..Len(func.loops) |->
             [type |-> "loop", byte_position |-> func.loops[j].byte_position,
              line_number |-> func.loops[j].line_number]] \o
          SlotsOf(Tail(functions))

Min(a, b) == IF a < b THEN a ELSE b

\* the number of function/loop fragments of a fragment sequence
FragmentCount(s) == Len(s.items) - 1

\* the k-th function/loop fragment
Fragment(s, k) == s.items[k + 1]

\* byte offset of the body zone in a text
BodyByteOffset(c_code) ==
  LET header == HeaderOf(c_code)
  IN IF header = <<>> THEN 0 ELSE ByteLen(header) + 1

\* t occurs in s as a contiguous run
Occurs(t, s) ==
  \E i \in 0..(Len(s) - Len(t)) : SubSeq(s, i + 1, i + Len(t)) = t

\* a fragment sequence that is no list, or whose element 0 is no list of
\* strings, or one of whose later elements is no string
Malformed(s) ==
  \/ s.tag # "list"
  \/ /\ Len(s.items) >= 1
     /\ \/ s.items[1].tag # "list"
        \/ \E i \in 1..Len(s.items[1].items) : s.items[1].items[i].tag # "str"
        \/ \E k \in 2..Len(s.items) : s.items[k].tag # "str"

\* validate_and_inject returned annotated text that went through the splicer
Spliced ==
  /\ Orchestrated
  /\ pc = "done"
  /\ result.success
  /\ ~ReturnsUnchanged(spec)

\* C3: after a successful comparison the points are planned against the
\* structure of the candidate that was compared, and the k-th fragment is
\* inserted before the k-th slot of that structure in the candidate's text.
C3_PlannedAgainstCandidate ==
  (Spliced /\ ~Malformed(spec)) =>
    LET slots == SlotsOf(CompletionStructure)
        count == Min(FragmentCount(spec), Len(slots))
        offset == BodyByteOffset(completion)
    IN /\ Len(points) = count
       /\ \A k \in 1..count :
            /\ \E i \in 1..Len(points) :
                 /\ points[i].spec_index = k
                 /\ points[i].type = slots[k].type
                 /\ points[i].byte_position + offset = slots[k].byte_position
            /\ NonBlank(Fragment(spec, k)) =>
                 Occurs(Strip(Fragment(spec, k).str) \o
                          <<"\n", completion[slots[k].byte_position + 1]>>,
                        result.injected.str)

\* C4: a malformed fragment sequence rejects the whole call: the result is
\* a failure and no text is returned.
C4_MalformedRejected ==
  (Orchestrated /\ pc = "done" /\ Malformed(spec)) =>
    /\ ~result.success
    /\ result.injected = PyNone

\* the fragment sequence holds a non-blank predicate, or a non-blank fragment
\* for a slot of the candidate
HasSomethingToInject ==
  /\ ~Malformed(spec)
  /\ spec.items # <<>>
  /\ \/ \E i \in 1..Len(spec.items[1].items) : NonBlank(spec.items[1].items[i])
     \/ \E k \in 1..Min(FragmentCount(spec), Len(SlotsOf(CompletionStructure))) :
          NonBlank(Fragment(spec, k))

\* C5: a failure inside planning or splicing is surfaced as a failure with
\* a message, and success is never returned with the unmodified candidate
\* text when there was a non-empty predicate or fragment to inject.
C5_NeverUnmodifiedAsAnnotated ==
  (Orchestrated /\ pc = "done" /\ validation.valid) =>
    /\ inject_raises(spec, completion) =>
         /\ ~result.success
         /\ result.error.stage = "Injection failed"
    /\ (result.success /\ HasSomethingToInject) =>
         result.injected # PyStr(completion)

\* the point is the one of the k-th slot
PointOfSlot(point, slots, k) ==
  /\ point.spec_index = k
  /\ point.type = slots[k].type
  /\ point.byte_position = slots[k].byte_position
  /\ point.line_number = slots[k].line_number

\* C6: fragments are assigned by position: the k-th slot visited (function,
\* then its loops, function by function) gets fragment index k with the kind
\* and byte position of that slot; index 0 is never assigned and no index is
\* assigned twice.
C6_PositionalAssignment ==
  Planned =>
    LET slots == SlotsOf(CompletionStructure)
        filled == Min(FragmentCount(spec), Len(slots))
    IN /\ \A i \in 1..Len(points) :
            /\ points[i].spec_index \in 1..Len(slots)
            /\ PointOfSlot(points[i], slots, points[i].spec_index)
       /\ \A i, j \in 1..Len(points) :
            points[i].spec_index = points[j].spec_index => i = j
       /\ \A k \in 1..filled : \E i \in 1..Len(points) : points[i].spec_index = k

C6_Witness ==
  /\ Planned
  /\ Len(CompletionStructure) = 2
  /\ CompletionStructure[1].loops # <<>>
  /\ Len(points) >= 3
  /\ \E i \in 1..Len(points) :
       points[i].spec_index = 3 /\ points[i].type = "function"

\* C7: with s slots and n fragments exactly min(n, s) points are emitted,
\* those of the first min(n, s) slots; with n < s the remaining slots get no
\* point, with n > s the extra fragments are referenced by no point.
C7_ExactlyMinPoints ==
  Planned =>
    LET filled == Min(FragmentCount(spec), Len(SlotsOf(CompletionStructure)))
    IN /\ Len(points) = filled
       /\ {points[i].spec_index : i \in 1..Len(points)} = 1..filled
       /\ (completion = TwoLoops /\ FragmentCount(spec) = 2) =>
            {<<points[i].type, points[i].byte_position>> : i \in 1..Len(points)}
              = {<<"function", 0>>, <<"loop", 4>>}

C7_Witness ==
  /\ Planned
  /\ completion = TwoLoops
  /\ FragmentCount(spec) = 2
  /\ Len(SlotsOf(CompletionStructure)) = 3
  /\ Len(points) = 2

\* C8: the planner's output is sorted strictly descending by byte position;
\* no two points share a byte position.
C8_StrictlyDescending ==
  Planned =>
    \A i, j \in 1..Len(points) :
      i < j => points[i].byte_position > points[j].byte_position

\* C9 as stated: the planner's output holds no point whose fragment is empty
\* or whitespace-only.
C9_NoPointForBlankFragment ==
  Planned =>
    \A i \in 1..Len(points) : NonBlank(PyIndex(spec, points[i].spec_index))

RECURSIVE Concat(_)
Concat(seqs) == IF seqs = <<>> THEN <<>> ELSE Head(seqs) \o Concat(Tail(seqs))

\* what is to be inserted before offset p of the body: the trimmed non-blank
\* fragments of the points at p, each followed by a newline
InsertedAt(p) ==
  LET here == SelectSeq(points, LAMBDA pt :
                /\ pt.byte_position = p
                /\ NonBlank(PyIndex(spec, pt.spec_index)))
  IN Concat([i \in 1..Len(here) |->
               Strip(PyIndex(spec, here[Len(here) + 1 - i].spec_index).str) \o <<"\n">>])

\* the body with the non-blank fragments in place, read from left to right
AnnotatedBody(body) ==
  Concat([i \in 1..Len(body) |-> InsertedAt(i - 1) \o <<body[i]>>])

\* the trimmed non-blank predicates
KeptPredicates ==
  LET kept == SelectSeq(spec.items[1].items, NonBlank)
  IN [i \in 1..Len(kept) |-> Strip(kept[i].str)]

\* C9, amended: nothing is spliced for an empty or whitespace-only fragment;
\* the planner still emits the point of its slot, so the slot consumes one
\* cursor position and the following slots keep their fragment indices, and
\* the splicer skips the point.
C9_BlankFragmentNotSpliced ==
  /\ Planned =>
       LET slots == SlotsOf(CompletionStructure)
       IN \A k \in 1..Min(FragmentCount(spec), Len(slots)) :
            ~NonBlank(Fragment(spec, k)) =>
              \E i \in 1..Len(points) : PointOfSlot(points[i], slots, k)
  /\ (Spliced /\ ~Malformed(spec)) =>
       LET header == HeaderOf(completion)
           predicates == KeptPredicates
       IN result.injected.str =
            Strip(CollapseBlankLines(
              Join(<<"\n", "\n">>,
                   (IF header # <<>> THEN <<header>> ELSE <<>>) \o
                   (IF predicates # <<>>
                    THEN <<Join(<<"\n", "\n">>, predicates)>> ELSE <<>>) \o
                   <<AnnotatedBody(BodyOf(completion))>>)))

C9_Witness ==
  /\ Spliced
  /\ ~Malformed(spec)
  /\ Len(points) >= 2
  /\ \E i, j \in 1..Len(points) :
       /\ points[i].spec_index + 1 = points[j].spec_index
       /\ ~NonBlank(PyIndex(spec, points[i].spec_index))
       /\ NonBlank(PyIndex(spec, points[j].spec_index))
       /\ Occurs(Strip(PyIndex(spec, points[j].spec_index).str), result.injected.str)

\* C10: validate_and_inject(T, T, [[]]) returns success, and the returned
\* text equals T after whitespace normalization.
C10_EmptySpecPassThrough ==
  (/\ Orchestrated
   /\ pc = "done"
   /\ skeleton = completion
   /\ spec = PyList(<<PyList(<<>>)>>)) =>
    /\ result.success
    /\ result.injected.tag = "str"
    /\ Normalize(result.injected.str) = Normalize(completion)

C10_Witness ==
  /\ Orchestrated
  /\ pc = "done"
  /\ skeleton = completion
  /\ spec = PyList(<<PyList(<<>>)>>)
  /\ HeaderOf(completion) # <<>>
  /\ CompletionStructure # <<>>
  /\ result.success

\* inject_acsl_specs_treesitter, called by itself, returned a text
SplicerReturned ==
  /\ op = "inject_acsl_specs_treesitter"
  /\ pc = "spliced"
  /\ result.success

\* C11: when element 0 of the fragment sequence holds a non-blank predicate
\* (also when there is no function or loop fragment at all), the output holds
\* the trimmed non-empty predicates joined by a blank line, after the whole
\* header zone and before the first character of the body zone, and no
\* predicate text is inside the body.
C11_PredicatesAfterHeader ==
  (SplicerReturned /\ KeptPredicates # <<>>) =>
    LET header == HeaderOf(completion)
        block == Join(<<"\n", "\n">>, KeptPredicates)
        before == IF header = <<>> THEN <<>>
                  ELSE Strip(CollapseBlankLines(header)) \o <<"\n", "\n">>
        out == result.injected.str
        after == Slice(out, Len(before) + Len(block), Len(out))
    IN /\ Slice(out, 0, Len(before) + Len(block)) = before \o block
       /\ after = <<>> \/ Slice(after, 0, 2) = <<"\n", "\n">>
       /\ \A i \in 1..Len(after) : after[i] \notin {"P", "Q"}


\* the number of include lines at the top of the text, up to the first line
\* that is no include line
LeadingIncludes(lines) ==
  CHOOSE n \in 0..Len(lines) :
    /\ \A i \in 1..n : IsIncludeLine(lines[i])
    /\ (n = Len(lines) \/ ~IsIncludeLine(lines[n + 1]))

\* C12: the header zone is exactly the maximal leading contiguous run of
\* include lines and the body zone is everything after it: an include line
\* after the first non-include line stays in the body; with no leading
\* include line the header is empty and the body is the entire text.
C12_HeaderIsLeadingIncludes ==
  (SplicerReturned /\ ~ReturnsUnchanged(spec)) =>
    LET lines == Split(completion)
        n == LeadingIncludes(lines)
    IN IF n = 0
       THEN HeaderOf(completion) = <<>> /\ BodyOf(completion) = completion
       ELSE /\ HeaderOf(completion) = Join(<<"\n">>, SubSeq(lines, 1, n))
            /\ BodyOf(completion) = Join(<<"\n">>, SubSeq(lines, n + 1, Len(lines)))


\* the structure without its loop bodies: names, signatures, and per loop
\* the kind and the character the loop starts with (its keyword and
\* condition)
LoopShapes(text) ==
  LET structure == extract_structure(text)
  IN [i \in 1..Len(structure) |->
        [name |-> structure[i].name,
         signature |-> structure[i].signature,
         loops |-> [j \in 1..Len(structure[i].loops) |->
                      [type |-> structure[i].loops[j].type,
                       condition |-> ByteSlice(text,
                                               structure[i].loops[j].byte_position,
                                               structure[i].loops[j].byte_position + 1)]]]]

\* C13: two sources with identical function names, normalized signatures,
\* loop counts, loop kinds and loop conditions compare as structurally
\* equal, whatever the statements of the loop bodies are (compound block or a
\* single statement of any kind).
C13_LoopBodiesIrrelevant ==
  (Compared /\ LoopShapes(skeleton) = LoopShapes(completion)) => validation.valid


RECURSIVE RemoveAll(_, _)
\* s without the occurrences of the non-empty text t
RemoveAll(s, t) ==
  IF Len(s) < Len(t) THEN s
  ELSE IF SubSeq(s, 1, Len(t)) = t
       THEN RemoveAll(SubSeq(s, Len(t) + 1, Len(s)), t)
       ELSE <<Head(s)>> \o RemoveAll(Tail(s), t)

RECURSIVE RemoveEach(_, _)
\* s without the occurrences of each of the texts
RemoveEach(s, texts) ==
  IF texts = <<>> THEN s ELSE RemoveEach(RemoveAll(s, Head(texts)), Tail(texts))

\* the lines of a text that are not blank
NonBlankLines(s) == SelectSeq(Split(s), LAMBDA line : Strip(line) # <<>>)

\* what the splicer inserted: the trimmed fragment of every point that has a
\* non-blank fragment, with its newline, and the trimmed predicates
InsertedTexts ==
  LET used == SelectSeq(points, LAMBDA pt : NonBlank(PyIndex(spec, pt.spec_index)))
  IN [i \in 1..Len(used) |-> Strip(PyIndex(spec, used[i].spec_index).str) \o <<"\n">>]
     \o KeptPredicates

\* the text of the function that starts at byte offset pos, up to the brace
\* that opens its body
RawSignature(text, pos) ==
  LET i == CHOOSE k \in 1..Len(text) : ByteOff(text, k) = pos
      j == CHOOSE k \in i..Len(text) :
             text[k] = "{" /\ \A m \in i..(k - 1) : text[m] # "{"
  IN SubSeq(text, i, j)

\* the texts of the function bodies that hold no loop and no function
SlotFreeBodies(text) ==
  LET nodes == _find_all_nodes_of_type(Parse(text), "function_definition")
      free == SelectSeq(nodes, LAMBDA n :
                /\ Len(_find_all_nodes_of_type(n, "function_definition")) = 1
                /\ \A t \in {"for_statement", "while_statement", "do_statement"} :
                     _find_all_nodes_of_type(n, t) = <<>>)
  IN [i \in 1..Len(free) |->
        LET b == ChildrenOfType(free[i], "compound_statement")[1]
        IN ByteSlice(text, b.start_byte, b.end_byte)]

\* C14: splicing leaves the existing text untouched: the output without the
\* inserted fragments and predicates is the original text up to blank lines
\* and outer trimming; a function-level fragment is immediately before the
\* function's signature, and the text of a function body is unchanged.
C14_ExistingTextUntouched ==
  (SplicerReturned /\ ~ReturnsUnchanged(spec)) =>
    LET body == BodyOf(completion)
        out == result.injected.str
        bodies == SlotFreeBodies(body)
    IN /\ NonBlankLines(RemoveEach(out, InsertedTexts)) = NonBlankLines(completion)
       /\ \A i \in 1..Len(points) :
            (points[i].type = "function" /\ NonBlank(PyIndex(spec, points[i].spec_index)))
              => Occurs(Strip(PyIndex(spec, points[i].spec_index).str) \o <<"\n">> \o
                          RawSignature(body, points[i].byte_position),
                        out)
       /\ \A i \in 1..Len(bodies) : Occurs(bodies[i], out)


\* the character of the text that starts at byte offset pos
CharAtByte(text, pos) ==
  LET at == {k \in 1..Len(text) : ByteOff(text, k) = pos}
  IN IF at = {} THEN <<>> ELSE <<text[CHOOSE k \in at : TRUE]>>

\* C16: applying the points in descending byte position invalidates no
\* offset: after all insertions every non-blank fragment, trimmed and
\* followed by one newline, is immediately followed by the text that began
\* at its point's position in the original body, the start of its function
\* or loop.
C16_OffsetsStayValid ==
  (SplicerReturned /\ ~ReturnsUnchanged(spec)) =>
    LET body == BodyOf(completion)
        out == result.injected.str
    IN \A i \in 1..Len(points) :
         NonBlank(PyIndex(spec, points[i].spec_index)) =>
           /\ CharAtByte(body, points[i].byte_position) # <<>>
           /\ Occurs(Strip(PyIndex(spec, points[i].spec_index).str) \o <<"\n">> \o
                       CharAtByte(body, points[i].byte_position),
                     out)

\* C17: the position used to cut the body text is the byte offset of the
\* target: slicing the text at a point's position gives the text that is
\* before that byte offset, also when characters encoded on more than one
\* byte precede the target.
C17_CutAtTargetByteOffset ==
  (SplicerReturned /\ ~ReturnsUnchanged(spec)) =>
    LET body == BodyOf(completion)
    IN \A i \in 1..Len(points) :
         NonBlank(PyIndex(spec, points[i].spec_index)) =>
           Slice(body, 0, points[i].byte_position) =
             ByteSlice(body, 0, points[i].byte_position)


\* a check of the comparison: whether it fails, and its diagnostic
Check(fails, diag) == [fails |-> fails, diag |-> diag]

\* the checks of the loops of one function, in stored order: kind, header
LoopChecks(name, skel_loops, comp_loops) ==
  Concat([j \in 1..Min(Len(skel_loops), Len(comp_loops)) |->
            <<Check(skel_loops[j].type # comp_loops[j].type,
                    Diag("loop type", PyStr(name), j - 1,
                         PyStr(<<skel_loops[j].type>>),
                         PyStr(<<comp_loops[j].type>>))),
              Check(skel_loops[j].header # comp_loops[j].header,
                    Diag("loop header", PyStr(name), j - 1,
                         PyStr(skel_loops[j].header),
                         PyStr(comp_loops[j].header)))>>])

\* all checks in the fixed order: function count, then per function name,
\* signature, loop count and its loops, function after function
AllChecks(skel, comp) ==
  <<Check(Len(skel) # Len(comp),
          Diag("function count", PyNone, -1, PyInt(Len(skel)), PyInt(Len(comp))))>> \o
  Concat([i \in 1..Min(Len(skel), Len(comp)) |->
            <<Check(skel[i].name # comp[i].name,
                    Diag("name", PyInt(i - 1), -1,
                         PyStr(skel[i].name), PyStr(comp[i].name))),
              Check(skel[i].signature # comp[i].signature,
                    Diag("signature", PyStr(skel[i].name), -1,
                         PyStr(skel[i].signature), PyStr(comp[i].signature))),
              Check(Len(skel[i].loops) # Len(comp[i].loops),
                    Diag("loop count", PyStr(skel[i].name), -1,
                         PyInt(Len(skel[i].loops)), PyInt(Len(comp[i].loops))))>> \o
            LoopChecks(skel[i].name, skel[i].loops, comp[i].loops)])

\* C15: the comparison stops at the first divergence in the fixed order
\* function count, then per function in stored order name, signature, loop
\* count, then per loop kind, header, all checks of a function before those
\* of the next one; the diagnostic is that of the earliest failing check and
\* names the field and both values (0 loops against 1 loop: loop count
\* mismatch 0 vs 1 for that function).
C15_FirstDivergenceInFixedOrder ==
  Compared =>
    LET checks == AllChecks(SkeletonStructure, CompletionStructure)
        failing == {k \in 1..Len(checks) : checks[k].fails}
    IN /\ validation.valid <=> failing = {}
       /\ failing # {} =>
            validation.error =
              checks[CHOOSE k \in failing : \A m \in failing : k <= m].diag
       /\ (skeleton = Plain /\ completion = ForLoop) =>
            validation.error =
              Diag("loop count", PyStr(<<"f">>), -1, PyInt(0), PyInt(1))

C15_Witness ==
  /\ Compared
  /\ ~validation.valid
  /\ validation.error.field = "loop header"
  /\ LET checks == AllChecks(SkeletonStructure, CompletionStructure)
     IN \E k \in 1..Len(checks) : checks[k].fails /\ checks[k].diag.field = "name"


\* xs is in strictly ascending byte_position
StrictlyAscending(xs) ==
  \A i, j \in 1..Len(xs) : i < j => xs[i].byte_position < xs[j].byte_position

\* C18: in every CodeStructure that extract_structure produces the functions
\* are in strictly ascending byte_position and, within each function, the
\* loops are in strictly ascending byte_position, whatever their kind and
\* their nesting depth inside ifs or other loops.
C18_AscendingPositions ==
  (Compared \/ Planned) =>
    LET structure == CompletionStructure
    IN /\ StrictlyAscending(structure)
       /\ \A i \in 1..Len(structure) : StrictlyAscending(structure[i].loops)

C18_Witness ==
  /\ Compared
  /\ completion = Mixed
  /\ LET loops == CompletionStructure[1].loops
     IN /\ Len(loops) = 3
        /\ <<loops[1].type, loops[2].type, loops[3].type>> = <<"while", "for", "do">>
        /\ loops[1].byte_position = 6


\* C19: the text the splicer returns has no two consecutive blank (empty or
\* whitespace-only) lines and no leading or trailing whitespace, for every
\* combination of header, predicates, body and fragments.
C19_NoBlankLineRuns ==
  SplicerReturned =>
    LET out == result.injected.str
        lines == Split(out)
    IN /\ out = Strip(out)
       /\ \A i \in 1..(Len(lines) - 1) :
            ~(Strip(lines[i]) = <<>> /\ Strip(lines[i + 1]) = <<>>)


\* a call of one of the tool functions has returned
ToolReturned == op \in Tools /\ pc = "done"

\* C20: every external tool invocation has deleted the temporary source
\* file it created by the time it returns, on every outcome: tool success,
\* tool failure, tool timeout, any other exception after the file was
\* created.
C20_TempFileDeleted == ToolReturned => ~temp_exists


\* the functions that start an external tool, and the number of steps of each
ToolCalls == Tools \cup {"check_runtime"}
StepsOf(tool) == IF tool = "check_runtime" THEN 2 ELSE 1

ProverCalls == Tools \ {"check_compilation"}
\* the first "Proved goals: p / t" line of the output of the call, if any
HasGoalLine == outcome.kind = "exit" /\ Len(outcome.output) > 0
FirstProved == IF HasGoalLine THEN outcome.output[1].proved ELSE 0
FirstTotal == IF HasGoalLine THEN outcome.output[1].total ELSE 0

\* C22: check_frama_c_verification and verify_annotated_c return True exactly
\* when the output has a "Proved goals: p / t" line and the first such line
\* has p = t and p > 0, and False otherwise; reinject_and_verify returns p / t
\* of the first such line when p > 0 and t > 0 and 0.0 on every other path,
\* so with p <= t its result is 0.0 or a ratio in (0, 1].
C22_ProvedGoalsDecideResult ==
  (op \in ProverCalls /\ pc = "done") =>
    /\ op # "reinject_and_verify" =>
         returned = PyBool(HasGoalLine /\ FirstProved = FirstTotal /\ FirstProved > 0)
    /\ op = "reinject_and_verify" =>
         /\ returned.tag = "float"
         /\ IF HasGoalLine /\ FirstProved > 0 /\ FirstTotal > 0
            THEN returned.num = FirstProved /\ returned.den = FirstTotal
            ELSE returned.num = 0 /\ returned.den = 1
         /\ FirstProved <= FirstTotal =>
              \/ returned.num = 0
              \/ 0 < returned.num /\ returned.num <= returned.den

\* a first line with p < t followed by a line with p = t > 0: the answer is False
C22_Witness ==
  /\ op = "verify_annotated_c"
  /\ pc = "done"
  /\ Len(outcome.output) = 2
  /\ outcome.output[1].proved < outcome.output[1].total
  /\ outcome.output[2].proved = outcome.output[2].total
  /\ outcome.output[2].proved > 0
  /\ returned = PyBool(FALSE)


\* the rules of validate_spec_structure, as properties of the argument
IsList(v) == v.tag = "list"
AllStrings(xs) == \A i \in 1..Len(xs) : xs[i].tag = "str"
PredicatesAreList == IsList(spec) /\ Len(spec.items) > 0 /\ IsList(spec.items[1])
WellFormedSpec ==
  /\ PredicatesAreList
  /\ AllStrings(spec.items[1].items)
  /\ AllStrings(Tail(spec.items))
\* the rule that is violated first, in the order of the checks
FirstViolatedRule ==
  CASE ~IsList(spec) -> "spec must be a list"
    [] IsList(spec) /\ Len(spec.items) = 0 -> "spec cannot be empty"
    [] IsList(spec) /\ Len(spec.items) > 0 /\ ~IsList(spec.items[1]) ->
         "spec[0] (predicates) must be a list"
    [] PredicatesAreList /\ ~AllStrings(spec.items[1].items) ->
         "spec[0][i] (predicate) must be a string"
    [] PredicatesAreList /\ AllStrings(spec.items[1].items)
         /\ ~AllStrings(Tail(spec.items)) ->
         "spec[i] (function/loop spec) must be a string"
    [] OTHER -> "None"

\* C23: validate_spec_structure(spec) returns (True, None) exactly when spec
\* is a non-empty list whose element 0 is a list of strings and whose later
\* elements are strings; otherwise it returns (False, message) with the
\* message of the first violated rule, naming the first offending element,
\* and it always returns.
C23_FirstViolatedRuleReported ==
  (op = "validate_spec_structure" /\ pc = "done") =>
    /\ spec_check # NotChecked
    /\ spec_check.valid <=> WellFormedSpec
    /\ spec_check.valid => spec_check.message = NoMessage
    /\ spec_check.message.rule = FirstViolatedRule
    /\ spec_check.message.rule = "spec[0][i] (predicate) must be a string" =>
         LET preds == spec.items[1].items
             i == spec_check.message.index
         IN /\ i + 1 \in 1..Len(preds)
            /\ preds[i + 1].tag # "str"
            /\ AllStrings(SubSeq(preds, 1, i))
    /\ spec_check.message.rule = "spec[i] (function/loop spec) must be a string" =>
         LET i == spec_check.message.index
         IN /\ i + 1 \in 2..Len(spec.items)
            /\ spec.items[i + 1].tag # "str"
            /\ AllStrings(SubSeq(spec.items, 2, i))

\* a spec with a non-string predicate and a non-string later element: the
\* predicate is reported
C23_Witness ==
  /\ op = "validate_spec_structure"
  /\ pc = "done"
  /\ PredicatesAreList
  /\ ~AllStrings(spec.items[1].items)
  /\ ~AllStrings(Tail(spec.items))
  /\ ~spec_check.valid
  /\ spec_check.message.rule = "spec[0][i] (predicate) must be a string"
  /\ spec_check.message.index = 1


\* the function definitions and the loops of a text: the characters that
\* stand for a function declarator or for the head of a loop
FunctionsIn(text) == {i \in 1..Len(text) : text[i] \in {"f", "g"}}
LoopsIn(text) == {i \in 1..Len(text) : text[i] \in {"W", "V", "R", "D"}}
\* the places <<function, loop>> of a structure's loop lists that hold the
\* loop at a byte offset
ListingsOf(structure, offset) ==
  UNION {{<<i, j>> : j \in {k \in 1..Len(structure[i].loops) :
                              structure[i].loops[k].byte_position = offset}} :
           i \in 1..Len(structure)}

\* C24: in the structure extract_structure gives for the planner's text each
\* loop of the text is in the loop list of exactly one function, and the
\* number of slots is the number of function definitions plus the number of
\* loops of the text.
C24_EachLoopListedOnce ==
  Planned =>
    LET structure == CompletionStructure
    IN /\ \A i \in LoopsIn(completion) :
            Cardinality(ListingsOf(structure, ByteOff(completion, i))) = 1
       /\ Len(SlotsOf(structure)) =
            Cardinality(FunctionsIn(completion)) + Cardinality(LoopsIn(completion))

=============================================================================
